---- MODULE Spec2Model ----
(***************************************************************************)
(* Model of the Techkkim service worker (src/sw.js): the two cache         *)
(* regions, the install/activate lifecycle, the fetch Router, the three    *)
(* caching strategies with their suspension points, the offline fallback   *)
(* synthesizer and the background-sync drains.                             *)
(*                                                                         *)
(* A URL is a sequence of tokens ("https:", "/", "/", host, "/", ...), so  *)
(* that String.prototype.includes and the regular expressions of           *)
(* DYNAMIC_PATTERNS are computed on the URL text and not assumed.          *)
(***************************************************************************)
EXTENDS Integers, Sequences, FiniteSets, TLC

(* ------------------------------ bounds --------------------------------- *)

\* number of strategy invocations in one run of the Strategy Engine
MaxProcs == 2

\* number of GET fetch events the worker answers in one run
MaxFetches == 1

\* longest pending queue handed to one sync invocation
MaxItems == 3

(* --------------------------- configuration ----------------------------- *)

CACHE_NAME == "techkkim-enhanced-v1.0"

STATIC_CACHE == "techkkim-static-v1.0"

DYNAMIC_CACHE == "techkkim-dynamic-v1.0"

\* region names left behind by earlier versions of the worker
OldRegionNames == {"techkkim-static-v0.9", "techkkim-dynamic-v0.9"}

\* every region name in creation order of the oldest possible history
AllRegionNames ==
  <<"techkkim-static-v0.9", "techkkim-dynamic-v0.9", STATIC_CACHE, DYNAMIC_CACHE>>

RegionNames == {AllRegionNames[i] : i \in 1..Len(AllRegionNames)}

\* location.origin of the worker
Origin == <<"https:", "/", "/", "techkkim.app">>

Storage ==
  <<"https:", "/", "/", "storage.googleapis.com", "/",
    "workspace-0f70711f-8b4e-4d94-86f1-2a93ccde5887", "/", "image", "/">>

STATIC_ASSETS ==
  << <<"/">>,
     <<"/", "enhanced-techkkim", ".html">>,
     <<"/", "manifest", ".json">>,
     <<"https:", "/", "/", "cdn.tailwindcss.com">>,
     Storage \o <<"2a4f375f-04f9-4560-a36d-b544a9f1d6e4", ".png">>,
     Storage \o <<"3eb146d2-9782-4e05-91aa-79f4f2370c19", ".png">>,
     Storage \o <<"95f6e6d0-426a-4d52-8213-ab0a6ba2def0", ".png">>,
     Storage \o <<"0300a514-6c23-471e-b3b0-58218d3f7379", ".png">>,
     Storage \o <<"13a22ef9-e9d3-4399-b008-405cacdb8ac7", ".png">> >>

(* ------------------------------ URL text ------------------------------- *)

\* String.prototype.includes: part occurs in text as a contiguous run
Includes(text, part) ==
  \E i \in 0..(Len(text) - Len(part)) :
    \A j \in 1..Len(part) : text[i + j] = part[j]

\* RegExp.test with a pattern anchored to the end of the string (/\.ext$/)
EndsWith(text, part) ==
  /\ Len(text) >= Len(part)
  /\ \A j \in 1..Len(part) : text[Len(text) - Len(part) + j] = part[j]

\* DYNAMIC_PATTERNS.some(pattern => pattern.test(url))
MatchesDynamicPattern(url) ==
  \/ Includes(url, <<"/", "api", "/">>)
  \/ Includes(url, <<"/", "monastery", "/">>)
  \/ Includes(url, <<"/", "archives", "/">>)
  \/ EndsWith(url, <<".jpg">>)
  \/ EndsWith(url, <<".png">>)
  \/ EndsWith(url, <<".webp">>)
  \/ EndsWith(url, <<".gif">>)

\* STATIC_ASSETS.some(asset => request.url.includes(asset))
MatchesStaticAsset(url) ==
  \E k \in 1..Len(STATIC_ASSETS) : Includes(url, STATIC_ASSETS[k])

\* new URL(request.url).origin === location.origin
SameOrigin(url) ==
  /\ Len(url) >= Len(Origin)
  /\ SubSeq(url, 1, Len(Origin)) = Origin
  /\ (Len(url) = Len(Origin) \/ url[Len(Origin) + 1] = "/")

\* a URL given to the Cache API is resolved against the worker's location
Resolve(u) == IF u[1] = "/" THEN Origin \o u ELSE u

StaticAssetURLs == {Resolve(STATIC_ASSETS[k]) : k \in 1..Len(STATIC_ASSETS)}

\* the three URLs cacheMonasteryData builds for one monastery id
MonasteryURLs(id) ==
  { Resolve(<<"/", "api", "/", "monastery", "/", id>>),
    Resolve(<<"/", "api", "/", "monastery", "/", id, "/", "images">>),
    Resolve(<<"/", "api", "/", "monastery", "/", id, "/", "360-tour">>) }

MonasteryIds == {"7"}

(* ------------------------------ requests ------------------------------- *)

Req(m, u, d) == [method |-> m, url |-> u, destination |-> d]

\* the requests the pages of the application issue
Requests ==
  { Req("GET", Origin \o <<"/">>, "document"),
    Req("GET", Origin \o <<"/", "api", "/", "monastery", "/", "7">>, ""),
    Req("GET", <<"https:", "/", "/", "api.example.org", "/", "api", "/", "events">>, ""),
    Req("POST", Origin \o <<"/", "api", "/", "monastery-visits">>, "") }

\* requests the strategies are exercised on: one per destination category
EngineRequests ==
  { Req("GET", Origin \o <<"/">>, "document"),
    Req("GET", <<"https:", "/", "/", "img.example.org", "/", "photo", ".jpg">>, "image"),
    Req("GET", <<"https:", "/", "/", "fonts.example.org", "/", "font", ".woff2">>, "font") }

URLs ==
  {r.url : r \in Requests \cup EngineRequests} \cup StaticAssetURLs
    \cup UNION {MonasteryURLs(id) : id \in MonasteryIds}

(* ------------------------------ responses ------------------------------ *)

Resp(s, c, b) == [status |-> s, ctype |-> c, body |-> b]

\* no entry (what match resolves to on a miss)
Absent == Resp(0, "absent", "")

\* the JavaScript value undefined, where a Response was expected
Undefined == Resp(0, "undefined", "")

\* a fetch that rejected (network unreachable)
Failed == Resp(0, "failed", "")

\* nothing yet
None == Resp(0, "none", "")

\* body versions a server can serve for one URL
Versions == {"v1", "v2"}

\* what a server answers a GET with: 200 with one of the body versions,
\* 204 No Content, or 404
NetResponses ==
  {Resp(200, "network", v) : v \in Versions}
    \cup {Resp(204, "network", ""), Resp(404, "network", "not found")}

\* the body version served while a cache.addAll batch is fetched
AddAllVersions == {"v1"}

\* getOfflineFallback without its image branch
getOfflineFallback_NoImage(request) ==
  IF request.destination = "document"
    THEN Resp(200, "text/html", "offline-page")
  ELSE Resp(503, "text/plain", "Offline - Content not available")

\* getOfflineFallback(request)
getOfflineFallback(request) ==
  IF request.destination = "document"
    THEN Resp(200, "text/html", "offline-page")
  ELSE IF request.destination = "image"
    THEN Resp(200, "image/svg+xml", "offline-svg")
  ELSE Resp(503, "text/plain", "Offline - Content not available")

(* ------------------------------- state --------------------------------- *)

VARIABLES
  swState,     \* lifecycle state of this worker as the host runtime sees it
  install,     \* the install handler's promise chain
  activate,    \* the activate handler's promise chain
  cacheOrder,  \* names of the existing regions, in creation order (caches.keys())
  store,       \* contents of every region: URL -> stored response or Absent
  deleted,     \* names of the regions the activate handler has deleted
  procs,       \* strategy invocations, one per answered request
  puts,        \* cache.put calls that were issued and have not settled
  lastFetch,   \* what the fetch listener did with the latest fetch event
  mon,         \* the cacheMonasteryData invocation
  sync,        \* the sync invocations, one per tag
  posted       \* messages posted to the controlled clients

vars ==
  <<swState, install, activate, cacheOrder, store, deleted, procs, puts,
    lastFetch, mon, sync, posted>>

lifecycleVars == <<swState, install, activate, deleted>>

engineVars == <<procs, puts, lastFetch>>

syncVars == <<sync, posted>>

(* ---------------------------- Cache Store ------------------------------ *)

EmptyRegion == [u \in URLs |-> Absent]

Exists(name) == \E i \in 1..Len(cacheOrder) : cacheOrder[i] = name

\* caches.open(name): creates the region if absent, idempotent
OpenedOrder(name) == IF Exists(name) THEN cacheOrder ELSE Append(cacheOrder, name)

\* the lookup made on the region created first, whatever the one opened
RegionMatch_FirstRegion(name, url) ==
  IF Len(cacheOrder) >= 1 THEN store[cacheOrder[1]][url] ELSE Absent

\* cache.match(request) on one region
RegionMatch(name, url) == store[name][url]

\* caches.match(request): the first hit over the regions in creation order
CachesMatch(url) ==
  IF \E i \in 1..Len(cacheOrder) : store[cacheOrder[i]][url] # Absent
    THEN LET first == CHOOSE i \in 1..Len(cacheOrder) :
                        /\ store[cacheOrder[i]][url] # Absent
                        /\ \A j \in 1..(i - 1) : store[cacheOrder[j]][url] = Absent
         IN store[cacheOrder[first]][url]
    ELSE Absent

\* the entries stored for url in the existing regions
EntriesFor(url) ==
  {store[cacheOrder[i]][url] : i \in 1..Len(cacheOrder)} \ {Absent}

\* caches.delete(name)
WithoutRegion(name) == SelectSeq(cacheOrder, LAMBDA n : n # name)

(* ------------------------------ lifecycle ------------------------------ *)

IdleInstall == [pc |-> "idle", addAll |-> "none", skipWaiting |-> FALSE, promise |-> "none"]

IdleActivate == [pc |-> "idle", todo |-> {}]

\* the keep test comparing against CACHE_NAME in place of DYNAMIC_CACHE
IsStale_WrongName(cacheName) == cacheName # STATIC_CACHE /\ cacheName # CACHE_NAME

\* the keep test of the activate handler: TRUE when cacheName is to be deleted
IsStale(cacheName) == cacheName # STATIC_CACHE /\ cacheName # DYNAMIC_CACHE

\* install event: event.waitUntil(caches.open(STATIC_CACHE).then(...)...)
InstallEvent ==
  /\ swState = "parsed"
  /\ swState' = "installing"
  /\ install' = [IdleInstall EXCEPT !.pc = "open", !.promise = "pending"]
  /\ UNCHANGED <<activate, cacheOrder, store, deleted, engineVars, mon, syncVars>>

\* caches.open(STATIC_CACHE) settles; a rejection lands in the .catch, which
\* logs and so fulfils the promise handed to waitUntil
InstallOpen ==
  /\ install.pc = "open"
  /\ \/ /\ cacheOrder' = OpenedOrder(STATIC_CACHE)
        /\ install' = [install EXCEPT !.pc = "addAll"]
     \/ /\ cacheOrder' = cacheOrder
        /\ install' = [install EXCEPT !.pc = "settled", !.promise = "fulfilled"]
  /\ UNCHANGED <<swState, activate, store, deleted, engineVars, mon, syncVars>>

\* cache.addAll(STATIC_ASSETS) settles: every asset was fetched with an ok
\* response and all are stored, or one fetch failed and nothing is stored.
\* then(skipWaiting) runs after success, catch(log) after failure; either way
\* the chain fulfils.
InstallAddAll ==
  /\ install.pc = "addAll"
  /\ \/ \E v \in AddAllVersions :
          /\ store' = [store EXCEPT ![STATIC_CACHE] =
                         [u \in URLs |-> IF u \in StaticAssetURLs
                                           THEN Resp(200, "network", v)
                                           ELSE store[STATIC_CACHE][u]]]
          /\ install' = [install EXCEPT !.pc = "settled", !.addAll = "ok",
                                        !.skipWaiting = TRUE, !.promise = "fulfilled"]
     \/ /\ store' = store
        /\ install' = [install EXCEPT !.pc = "settled", !.addAll = "rejected",
                                      !.promise = "fulfilled"]
  /\ UNCHANGED <<swState, activate, cacheOrder, deleted, engineVars, mon, syncVars>>

\* the host runtime reads the promise it was handed: fulfilled -> installed,
\* rejected -> the worker is discarded and installation is retried later
InstallSettled ==
  /\ swState = "installing"
  /\ install.promise \in {"fulfilled", "rejected"}
  /\ swState' = IF install.promise = "fulfilled" THEN "installed" ELSE "redundant"
  /\ UNCHANGED <<install, activate, cacheOrder, store, deleted, engineVars, mon, syncVars>>

\* activate event: event.waitUntil(caches.keys().then(...))
ActivateEvent ==
  /\ swState = "installed"
  /\ swState' = "activating"
  /\ activate' = [IdleActivate EXCEPT !.pc = "keys"]
  /\ UNCHANGED <<install, cacheOrder, store, deleted, engineVars, mon, syncVars>>

\* caches.keys() resolves; a caches.delete is issued for every stale name
ActivateKeys ==
  /\ activate.pc = "keys"
  /\ activate' = [pc |-> "deleting",
                  todo |-> {n \in RegionNames : Exists(n) /\ IsStale(n)}]
  /\ UNCHANGED <<swState, install, cacheOrder, store, deleted, engineVars, mon, syncVars>>

\* one of the issued caches.delete(cacheName) completes
ActivateDelete(cacheName) ==
  /\ activate.pc = "deleting"
  /\ cacheName \in activate.todo
  /\ cacheOrder' = WithoutRegion(cacheName)
  /\ store' = [store EXCEPT ![cacheName] = EmptyRegion]
  /\ deleted' = deleted \cup {cacheName}
  /\ activate' = [activate EXCEPT !.todo = @ \ {cacheName}]
  /\ UNCHANGED <<swState, install, engineVars, mon, syncVars>>

\* Promise.all resolved; clients.claim(); the worker is active
ActivateClaim ==
  /\ activate.pc = "deleting"
  /\ activate.todo = {}
  /\ activate' = [activate EXCEPT !.pc = "settled"]
  /\ swState' = "activated"
  /\ UNCHANGED <<install, cacheOrder, store, deleted, engineVars, mon, syncVars>>

(* ------------------------------- Router -------------------------------- *)

\* the guard of the fetch listener inverted
SkipsRequest_Inverted(request) == request.method = "GET"

\* the guard of the fetch listener: TRUE when the request is left alone
SkipsRequest(request) == request.method # "GET"

\* assets.some(asset => url.includes(asset)) for any asset list
MatchesAssetOf(assets, url) ==
  \E k \in 1..Len(assets) : Includes(url, assets[k])

\* the if/else chain of the fetch listener, for any static-asset list
RouteWith(assets, request) ==
  IF SameOrigin(request.url) THEN "cacheFirst"
  ELSE IF MatchesAssetOf(assets, request.url) THEN "cacheFirst"
  ELSE IF MatchesDynamicPattern(request.url) THEN "networkFirst"
  ELSE "staleWhileRevalidate"

\* the chain with the dynamic-pattern test moved to the front
Route_DynamicFirst(request) ==
  IF MatchesDynamicPattern(request.url) THEN "networkFirst"
  ELSE IF SameOrigin(request.url) THEN "cacheFirst"
  ELSE IF MatchesStaticAsset(request.url) THEN "cacheFirst"
  ELSE "staleWhileRevalidate"

\* the if/else chain of the fetch listener
Route(request) ==
  IF SameOrigin(request.url) THEN "cacheFirst"
  ELSE IF MatchesStaticAsset(request.url) THEN "cacheFirst"
  ELSE IF MatchesDynamicPattern(request.url) THEN "networkFirst"
  ELSE "staleWhileRevalidate"

(* --------------------------- Strategy Engine --------------------------- *)

ProcIds == 1..(IF MaxProcs > MaxFetches THEN MaxProcs ELSE MaxFetches)

NoLookup == [state |-> "none", entries |-> {}]

IdleProc ==
  [strategy |-> "none", req |-> Req("", <<>>, ""), pc |-> "idle",
   cached |-> None, net |-> None, result |-> None, bg |-> "none",
   lookup |-> NoLookup, storeError |-> FALSE, after |-> {}, putIssued |-> FALSE]

\* the first suspension point of each strategy
EntryPoint(strategy) ==
  CASE strategy = "cacheFirst" -> "cf_match"
    [] strategy = "networkFirst" -> "nf_fetch"
    [] strategy = "staleWhileRevalidate" -> "swr_open"

\* slots are taken in order
NextSlot(p) ==
  /\ procs[p].pc = "idle"
  /\ \A q \in ProcIds : q < p => procs[q].pc # "idle"

\* the invocations that had answered their caller already
Answered == {q \in ProcIds : procs[q].pc \in {"done", "rejected"}}

Started(p, strategy, request) ==
  [IdleProc EXCEPT !.strategy = strategy, !.req = request,
                   !.pc = EntryPoint(strategy), !.after = Answered]

\* the operands swapped: getOfflineFallback(request) || cachedResponse
CachedOrFallback_Swapped(cachedResponse, request) == getOfflineFallback(request)

\* cachedResponse || getOfflineFallback(request)
CachedOrFallback(cachedResponse, request) ==
  IF cachedResponse # Absent THEN cachedResponse ELSE getOfflineFallback(request)

\* the operands swapped: networkResponsePromise || cachedResponse
AnswersFromCache_Swapped(cachedResponse) == FALSE

\* cachedResponse || networkResponsePromise: TRUE when the left operand is taken
AnswersFromCache(cachedResponse) == cachedResponse # Absent

\* the status test left out: every response is put
Cacheable_Always(response) == TRUE

\* the status test widened to response.ok
Cacheable_AnyOk(response) == response.status >= 200 /\ response.status <= 299

\* the status test before cache.put
Cacheable(response) == response.status = 200

\* the put aimed at the cache of the base name
PutOf_BaseName(p, region, response) ==
  [region |-> CACHE_NAME, url |-> procs[p].req.url, resp |-> response, by |-> p]

\* cache.put(request, networkResponse.clone()) on the region opened
PutOf(p, region, response) ==
  [region |-> region, url |-> procs[p].req.url, resp |-> response, by |-> p]

\* a fetch was issued on behalf of invocation p
NetCalled(p) ==
  \/ procs[p].pc \in {"cf_fetch", "nf_fetch"}
  \/ procs[p].bg = "inflight"
  \/ procs[p].net # None

\* fetch event: the listener returns without respondWith for a non-GET
\* request, otherwise respondWith(<the routed strategy>(request))
FetchEvent(request) ==
  /\ swState = "activated"
  /\ IF SkipsRequest(request)
       THEN /\ lastFetch' = [req |-> request, respondWith |-> FALSE]
            /\ procs' = procs
       ELSE \E p \in 1..MaxFetches :
              /\ NextSlot(p)
              /\ procs' = [procs EXCEPT ![p] = Started(p, Route(request), request)]
              /\ lastFetch' = [req |-> request, respondWith |-> TRUE]
  /\ UNCHANGED <<lifecycleVars, cacheOrder, store, puts, mon, syncVars>>

\* a strategy invoked as a function on a GET request, in one of the slots
CallStrategyIn(slots, strategy, request) ==
  /\ swState = "activated"
  /\ \E p \in slots :
       /\ NextSlot(p)
       /\ procs' = [procs EXCEPT ![p] = Started(p, strategy, request)]
  /\ UNCHANGED <<lifecycleVars, cacheOrder, store, puts, lastFetch, mon, syncVars>>

\* a strategy invoked as a function on a GET request
CallStrategy(strategy, request) == CallStrategyIn(ProcIds, strategy, request)

\* cacheFirstStrategy: await caches.match(request)
CFMatch(p) ==
  /\ procs[p].pc = "cf_match"
  /\ \/ LET m == CachesMatch(procs[p].req.url)
            l == [state |-> "ok", entries |-> EntriesFor(procs[p].req.url)]
        IN procs' = [procs EXCEPT ![p] =
             IF m # Absent
               THEN [@ EXCEPT !.cached = m, !.lookup = l, !.result = m, !.pc = "done"]
               ELSE [@ EXCEPT !.cached = m, !.lookup = l, !.pc = "cf_fetch"]]
     \/ procs' = [procs EXCEPT ![p] =
          [@ EXCEPT !.lookup = [state |-> "failed", entries |-> {}], !.storeError = TRUE,
                    !.result = getOfflineFallback(procs[p].req), !.pc = "done"]]
  /\ UNCHANGED <<lifecycleVars, cacheOrder, store, puts, lastFetch, mon, syncVars>>

\* cacheFirstStrategy: await fetch(request)
CFFetch(p) ==
  /\ procs[p].pc = "cf_fetch"
  /\ \/ \E r \in NetResponses :
          procs' = [procs EXCEPT ![p] =
            IF Cacheable(r)
              THEN [@ EXCEPT !.net = r, !.pc = "cf_open"]
              ELSE [@ EXCEPT !.net = r, !.result = r, !.pc = "done"]]
     \/ procs' = [procs EXCEPT ![p] =
          [@ EXCEPT !.net = Failed, !.result = getOfflineFallback(procs[p].req), !.pc = "done"]]
  /\ UNCHANGED <<lifecycleVars, cacheOrder, store, puts, lastFetch, mon, syncVars>>

\* cacheFirstStrategy: await caches.open(STATIC_CACHE); cache.put(...) is
\* issued and not awaited; return networkResponse
CFOpen(p) ==
  /\ procs[p].pc = "cf_open"
  /\ \/ /\ cacheOrder' = OpenedOrder(STATIC_CACHE)
        /\ puts' = puts \cup {PutOf(p, STATIC_CACHE, procs[p].net)}
        /\ procs' = [procs EXCEPT ![p] =
             [@ EXCEPT !.result = procs[p].net, !.putIssued = TRUE, !.pc = "done"]]
     \/ /\ cacheOrder' = cacheOrder
        /\ puts' = puts
        /\ procs' = [procs EXCEPT ![p] =
             [@ EXCEPT !.storeError = TRUE,
                       !.result = getOfflineFallback(procs[p].req), !.pc = "done"]]
  /\ UNCHANGED <<lifecycleVars, store, lastFetch, mon, syncVars>>

\* networkFirstStrategy: await fetch(request)
NFFetch(p) ==
  /\ procs[p].pc = "nf_fetch"
  /\ \/ \E r \in NetResponses :
          procs' = [procs EXCEPT ![p] =
            IF Cacheable(r)
              THEN [@ EXCEPT !.net = r, !.pc = "nf_open"]
              ELSE [@ EXCEPT !.net = r, !.result = r, !.pc = "done"]]
     \/ procs' = [procs EXCEPT ![p] = [@ EXCEPT !.net = Failed, !.pc = "nf_catch"]]
  /\ UNCHANGED <<lifecycleVars, cacheOrder, store, puts, lastFetch, mon, syncVars>>

\* networkFirstStrategy: await caches.open(DYNAMIC_CACHE); cache.put(...) is
\* issued and not awaited; return networkResponse. A rejection of open is
\* caught by the same try block as a failed fetch.
NFOpen(p) ==
  /\ procs[p].pc = "nf_open"
  /\ \/ /\ cacheOrder' = OpenedOrder(DYNAMIC_CACHE)
        /\ puts' = puts \cup {PutOf(p, DYNAMIC_CACHE, procs[p].net)}
        /\ procs' = [procs EXCEPT ![p] =
             [@ EXCEPT !.result = procs[p].net, !.putIssued = TRUE, !.pc = "done"]]
     \/ /\ cacheOrder' = cacheOrder
        /\ puts' = puts
        /\ procs' = [procs EXCEPT ![p] = [@ EXCEPT !.storeError = TRUE, !.pc = "nf_catch"]]
  /\ UNCHANGED <<lifecycleVars, store, lastFetch, mon, syncVars>>

\* networkFirstStrategy, catch block: await caches.match(request);
\* return cachedResponse || getOfflineFallback(request). A rejection of
\* match here is not caught: the strategy rejects.
NFCatch(p) ==
  /\ procs[p].pc = "nf_catch"
  /\ \/ LET m == CachesMatch(procs[p].req.url)
            l == [state |-> "ok", entries |-> EntriesFor(procs[p].req.url)]
        IN procs' = [procs EXCEPT ![p] =
             [@ EXCEPT !.cached = m, !.lookup = l, !.pc = "done",
                       !.result = CachedOrFallback(m, procs[p].req)]]
     \/ procs' = [procs EXCEPT ![p] =
          [@ EXCEPT !.lookup = [state |-> "failed", entries |-> {}], !.storeError = TRUE,
                    !.pc = "rejected"]]
  /\ UNCHANGED <<lifecycleVars, cacheOrder, store, puts, lastFetch, mon, syncVars>>

\* staleWhileRevalidateStrategy: await caches.open(DYNAMIC_CACHE), outside
\* any try block
SWROpen(p) ==
  /\ procs[p].pc = "swr_open"
  /\ \/ /\ cacheOrder' = OpenedOrder(DYNAMIC_CACHE)
        /\ procs' = [procs EXCEPT ![p] = [@ EXCEPT !.pc = "swr_match"]]
     \/ /\ cacheOrder' = cacheOrder
        /\ procs' = [procs EXCEPT ![p] = [@ EXCEPT !.storeError = TRUE, !.pc = "rejected"]]
  /\ UNCHANGED <<lifecycleVars, store, puts, lastFetch, mon, syncVars>>

\* staleWhileRevalidateStrategy: await cache.match(request); the fetch is
\* issued; return cachedResponse || networkResponsePromise
SWRMatch(p) ==
  /\ procs[p].pc = "swr_match"
  /\ \/ LET m == RegionMatch(DYNAMIC_CACHE, procs[p].req.url)
            l == [state |-> "ok", entries |-> {store[DYNAMIC_CACHE][procs[p].req.url]} \ {Absent}]
        IN procs' = [procs EXCEPT ![p] =
             IF AnswersFromCache(m)
               THEN [@ EXCEPT !.cached = m, !.lookup = l, !.bg = "inflight",
                              !.result = m, !.pc = "done"]
               ELSE [@ EXCEPT !.cached = m, !.lookup = l, !.bg = "inflight",
                              !.pc = "swr_wait"]]
     \/ procs' = [procs EXCEPT ![p] =
          [@ EXCEPT !.lookup = [state |-> "failed", entries |-> {}], !.storeError = TRUE,
                    !.pc = "rejected"]]
  /\ UNCHANGED <<lifecycleVars, cacheOrder, store, puts, lastFetch, mon, syncVars>>

\* what networkResponsePromise resolves to when the fetch rejected:
\* .catch(() => cachedResponse), undefined when there was no cached entry
CaughtValue(cachedResponse) ==
  IF cachedResponse = Absent THEN Undefined ELSE cachedResponse

\* staleWhileRevalidateStrategy: the revalidation fetch settles; a 200
\* response is put (not awaited) into the region opened earlier; the caller
\* is answered now if it was still waiting on networkResponsePromise
SWRFetch(p) ==
  /\ procs[p].bg = "inflight"
  /\ \/ \E r \in NetResponses :
          /\ puts' = IF Cacheable(r)
                       THEN puts \cup {PutOf(p, DYNAMIC_CACHE, r)} ELSE puts
          /\ procs' = [procs EXCEPT ![p] =
               IF @.pc = "swr_wait"
                 THEN [@ EXCEPT !.net = r, !.bg = "settled", !.putIssued = Cacheable(r),
                                !.result = r, !.pc = "done"]
                 ELSE [@ EXCEPT !.net = r, !.bg = "settled", !.putIssued = Cacheable(r)]]
     \/ /\ puts' = puts
        /\ procs' = [procs EXCEPT ![p] =
             IF @.pc = "swr_wait"
               THEN [@ EXCEPT !.net = Failed, !.bg = "settled",
                              !.result = CaughtValue(procs[p].cached), !.pc = "done"]
               ELSE [@ EXCEPT !.net = Failed, !.bg = "settled"]]
  /\ UNCHANGED <<lifecycleVars, cacheOrder, store, lastFetch, mon, syncVars>>

\* an issued cache.put completes: the entry replaces any earlier one
PutCommit(w) ==
  /\ w \in puts
  /\ Exists(w.region)
  /\ store' = [store EXCEPT ![w.region][w.url] = w.resp]
  /\ puts' = puts \ {w}
  /\ UNCHANGED <<lifecycleVars, cacheOrder, procs, lastFetch, mon, syncVars>>

\* an issued cache.put rejects (quota exceeded, I/O error); nobody awaits it
PutFail(w) ==
  /\ w \in puts
  /\ puts' = puts \ {w}
  /\ UNCHANGED <<lifecycleVars, cacheOrder, store, procs, lastFetch, mon, syncVars>>

(* ------------------------- message: CACHE_MONASTERY --------------------- *)

IdleMon == [pc |-> "idle", id |-> ""]

\* message event {type: 'CACHE_MONASTERY', monasteryId}: cacheMonasteryData(id)
MessageCacheMonastery(id) ==
  /\ swState \in {"installing", "installed", "activating", "activated"}
  /\ mon.pc = "idle"
  /\ mon' = [pc |-> "open", id |-> id]
  /\ UNCHANGED <<lifecycleVars, cacheOrder, store, engineVars, syncVars>>

\* cacheMonasteryData: await caches.open(DYNAMIC_CACHE); a rejection is logged
MonOpen ==
  /\ mon.pc = "open"
  /\ \/ /\ cacheOrder' = OpenedOrder(DYNAMIC_CACHE)
        /\ mon' = [mon EXCEPT !.pc = "addAll"]
     \/ /\ cacheOrder' = cacheOrder
        /\ mon' = [mon EXCEPT !.pc = "done"]
  /\ UNCHANGED <<lifecycleVars, store, engineVars, syncVars>>

\* cacheMonasteryData: await cache.addAll(urls): all three are stored, or
\* one fetch failed, nothing is stored and the rejection is logged
MonAddAll ==
  /\ mon.pc = "addAll"
  /\ \/ \E v \in AddAllVersions :
          store' = [store EXCEPT ![DYNAMIC_CACHE] =
                      [u \in URLs |-> IF u \in MonasteryURLs(mon.id)
                                        THEN Resp(200, "network", v)
                                        ELSE store[DYNAMIC_CACHE][u]]]
     \/ store' = store
  /\ mon' = [mon EXCEPT !.pc = "done"]
  /\ UNCHANGED <<lifecycleVars, cacheOrder, engineVars, syncVars>>

(* --------------------------- Deferred sync ----------------------------- *)

MONASTERY_SYNC == "background-monastery-sync"

CHAT_SYNC == "background-chat-sync"

SyncTags == {MONASTERY_SYNC, CHAT_SYNC}

\* what getPendingVisits / getPendingChatMessages can hand to one invocation:
\* the pending items of the external queue, oldest first
PendingQueues == {[i \in 1..n |-> i] : n \in 0..MaxItems}

\* statuses a server answers a sync POST with
PostStatuses == {201, 500}

IdleSync == [pc |-> "idle", items |-> <<>>, sent |-> <<>>, results |-> <<>>, notified |-> 0]

\* whether the sync function of this tag notifies the clients after its loop
NotifiesClients(tag) == tag = MONASTERY_SYNC

\* after the POST loop ran to its end
AfterLoop(tag) == IF NotifiesClients(tag) THEN "notify" ELSE "done"

\* sync event with a handled tag: event.waitUntil(sync...())
SyncEvent(tag) ==
  /\ sync[tag].pc = "idle"
  /\ sync' = [sync EXCEPT ![tag] = [@ EXCEPT !.pc = "pending"]]
  /\ UNCHANGED <<lifecycleVars, cacheOrder, store, engineVars, mon, posted>>

\* await getPending...() resolves; the loop issues the POST of the first
\* item, or ends at once on an empty queue
\* the POSTs of all pending items issued at once (Promise.all over the queue)
SyncGetPending_AllAtOnce(tag) ==
  /\ sync[tag].pc = "pending"
  /\ \E q \in PendingQueues :
       sync' = [sync EXCEPT ![tag] =
         IF Len(q) = 0
           THEN [@ EXCEPT !.items = q, !.pc = AfterLoop(tag)]
           ELSE [@ EXCEPT !.items = q, !.sent = q, !.pc = "posting"]]
  /\ UNCHANGED <<lifecycleVars, cacheOrder, store, engineVars, mon, posted>>

SyncGetPending(tag) ==
  /\ sync[tag].pc = "pending"
  /\ \E q \in PendingQueues :
       sync' = [sync EXCEPT ![tag] =
         IF Len(q) = 0
           THEN [@ EXCEPT !.items = q, !.pc = AfterLoop(tag)]
           ELSE [@ EXCEPT !.items = q, !.sent = <<q[1]>>, !.pc = "posting"]]
  /\ UNCHANGED <<lifecycleVars, cacheOrder, store, engineVars, mon, posted>>

\* await fetch(..., {method: 'POST'}) settles with a response of any status:
\* the loop goes on to the next item, or ends
SyncPostResolved(tag) ==
  /\ sync[tag].pc = "posting"
  /\ \E st \in PostStatuses :
       LET k == Len(sync[tag].sent) IN
       sync' = [sync EXCEPT ![tag] =
         IF k < Len(@.items)
           THEN [@ EXCEPT !.results = Append(@, st), !.sent = Append(@, sync[tag].items[k + 1])]
           ELSE [@ EXCEPT !.results = Append(@, st), !.pc = AfterLoop(tag)]]
  /\ UNCHANGED <<lifecycleVars, cacheOrder, store, engineVars, mon, posted>>

\* the rejection caught inside the loop: the loop goes on to the next item
SyncPostRejected_CaughtPerItem(tag) ==
  /\ sync[tag].pc = "posting"
  /\ LET k == Len(sync[tag].sent) IN
     sync' = [sync EXCEPT ![tag] =
       IF k < Len(@.items)
         THEN [@ EXCEPT !.results = Append(@, 0), !.sent = Append(@, sync[tag].items[k + 1])]
         ELSE [@ EXCEPT !.results = Append(@, 0), !.pc = AfterLoop(tag)]]
  /\ UNCHANGED <<lifecycleVars, cacheOrder, store, engineVars, mon, posted>>

\* await fetch(..., {method: 'POST'}) rejects: the catch block logs and the
\* function returns
SyncPostRejected(tag) ==
  /\ sync[tag].pc = "posting"
  /\ sync' = [sync EXCEPT ![tag] = [@ EXCEPT !.results = Append(@, 0), !.pc = "done"]]
  /\ UNCHANGED <<lifecycleVars, cacheOrder, store, engineVars, mon, posted>>

\* self.clients.matchAll().then(...): SYNC_COMPLETE is posted to the clients
SyncNotify(tag) ==
  /\ sync[tag].pc = "notify"
  /\ posted' = Append(posted, [type |-> "SYNC_COMPLETE", synced |-> Len(sync[tag].items)])
  /\ sync' = [sync EXCEPT ![tag] = [@ EXCEPT !.notified = @ + 1, !.pc = "done"]]
  /\ UNCHANGED <<lifecycleVars, cacheOrder, store, engineVars, mon>>

(* --------------------------- specifications ---------------------------- *)

\* contents of a region that an earlier run left behind
OldContents ==
  [u \in URLs |-> IF u = Origin \o <<"/">> THEN Resp(200, "network", "v0") ELSE Absent]

InitRest ==
  /\ install = IdleInstall
  /\ activate = IdleActivate
  /\ deleted = {}
  /\ procs = [p \in ProcIds |-> IdleProc]
  /\ puts = {}
  /\ lastFetch = [req |-> Req("", <<>>, ""), respondWith |-> FALSE]
  /\ mon = IdleMon
  /\ sync = [t \in SyncTags |-> IdleSync]
  /\ posted = <<>>

\* the worker script has just been evaluated; earlier versions may have left
\* any of their regions behind
Init ==
  /\ swState = "parsed"
  /\ \E pre \in SUBSET OldRegionNames :
       /\ cacheOrder = SelectSeq(AllRegionNames, LAMBDA n : n \in pre)
       /\ store = [n \in RegionNames |-> IF n \in pre THEN OldContents ELSE EmptyRegion]
  /\ InitRest

\* lifecycle, fetch events through the Router, cache writes, messages
Next ==
  \/ InstallEvent
  \/ InstallOpen
  \/ InstallAddAll
  \/ InstallSettled
  \/ ActivateEvent
  \/ ActivateKeys
  \/ \E n \in RegionNames : ActivateDelete(n)
  \/ ActivateClaim
  \/ \E r \in Requests : FetchEvent(r)
  \/ \E p \in ProcIds : CFMatch(p)
  \/ \E p \in ProcIds : CFFetch(p)
  \/ \E p \in ProcIds : CFOpen(p)
  \/ \E w \in puts : PutCommit(w)
  \/ \E w \in puts : PutFail(w)
  \/ \E id \in MonasteryIds : MessageCacheMonastery(id)
  \/ MonOpen
  \/ MonAddAll

Spec == Init /\ [][Next]_vars

\* the Strategy Engine on its own: an active worker, the current regions
\* missing, empty or holding an entry, and each strategy invoked on any
\* GET request
InitEngine ==
  /\ swState = "activated"
  /\ \E pre \in SUBSET {STATIC_CACHE, DYNAMIC_CACHE} :
     \E full \in SUBSET pre :
       /\ cacheOrder = SelectSeq(AllRegionNames, LAMBDA n : n \in pre)
       /\ store = [n \in RegionNames |-> IF n \in full THEN OldContents ELSE EmptyRegion]
  /\ InitRest

Strategies == {"cacheFirst", "networkFirst", "staleWhileRevalidate"}

NextEngine ==
  \/ \E s \in Strategies, r \in EngineRequests : CallStrategy(s, r)
  \/ \E p \in ProcIds : CFMatch(p)
  \/ \E p \in ProcIds : CFFetch(p)
  \/ \E p \in ProcIds : CFOpen(p)
  \/ \E p \in ProcIds : NFFetch(p)
  \/ \E p \in ProcIds : NFOpen(p)
  \/ \E p \in ProcIds : NFCatch(p)
  \/ \E p \in ProcIds : SWROpen(p)
  \/ \E p \in ProcIds : SWRMatch(p)
  \/ \E p \in ProcIds : SWRFetch(p)
  \/ \E w \in puts : PutCommit(w)
  \/ \E w \in puts : PutFail(w)

SpecEngine == InitEngine /\ [][NextEngine]_vars

\* the GET requests a page of the origin issues
WorkerRequests == {r \in Requests : ~SkipsRequest(r)}

\* the whole worker with every strategy in use: the lifecycle, the cache
\* writes and the message handler as in Next, and each strategy invoked on a
\* GET request once the worker is active
NextWorker ==
  \/ InstallEvent
  \/ InstallOpen
  \/ InstallAddAll
  \/ InstallSettled
  \/ ActivateEvent
  \/ ActivateKeys
  \/ \E n \in RegionNames : ActivateDelete(n)
  \/ ActivateClaim
  \/ \E s \in Strategies, r \in WorkerRequests : CallStrategyIn(1..MaxFetches, s, r)
  \/ \E p \in ProcIds : CFMatch(p)
  \/ \E p \in ProcIds : CFFetch(p)
  \/ \E p \in ProcIds : CFOpen(p)
  \/ \E p \in ProcIds : NFFetch(p)
  \/ \E p \in ProcIds : NFOpen(p)
  \/ \E p \in ProcIds : NFCatch(p)
  \/ \E p \in ProcIds : SWROpen(p)
  \/ \E p \in ProcIds : SWRMatch(p)
  \/ \E p \in ProcIds : SWRFetch(p)
  \/ \E w \in puts : PutCommit(w)
  \/ \E w \in puts : PutFail(w)
  \/ \E id \in MonasteryIds : MessageCacheMonastery(id)
  \/ MonOpen
  \/ MonAddAll

SpecWorker == Init /\ [][NextWorker]_vars

\* the Deferred-Sync Manager on its own: it shares no state with the caches
NextSync ==
  \/ \E t \in SyncTags : SyncEvent(t)
  \/ \E t \in SyncTags : SyncGetPending(t)
  \/ \E t \in SyncTags : SyncPostResolved(t)
  \/ \E t \in SyncTags : SyncPostRejected(t)
  \/ \E t \in SyncTags : SyncNotify(t)

SpecSync == Init /\ [][NextSync]_vars

(* ------------------------------- claims -------------------------------- *)

Returned(p) == procs[p].pc = "done"

\* C1 (as claimed): with the store working, every strategy invocation, for
\* every cache hit/miss and network success/failure, answers with a response:
\* it never rejects and never resolves to undefined.
C1_AlwaysAResponse ==
  \A p \in ProcIds :
    ~procs[p].storeError =>
      /\ procs[p].pc # "rejected"
      /\ Returned(p) => procs[p].result \notin {Undefined, None}

\* C2: a fetch event for a non-GET request never calls respondWith and leaves
\* the invocations, the pending writes and every region as they were.
C2_NonGetPassesThrough ==
  [][(lastFetch' # lastFetch /\ lastFetch'.req.method # "GET") =>
       /\ ~lastFetch'.respondWith
       /\ UNCHANGED <<procs, puts, store, cacheOrder>>]_vars

C2_Witness ==
  /\ swState = "activated"
  /\ lastFetch.req.method = "POST"
  /\ ~lastFetch.respondWith
  /\ \A p \in ProcIds : procs[p].pc = "idle"

InstalledStates == {"installed", "activating", "activated"}

\* C3 (as claimed): a failed asset fetch during install makes the promise handed
\* to waitUntil fail, so the worker is never installed, after its addAll has
\* settled, with a static region that lacks a listed asset.
C3_InstallFailsOnAssetFailure ==
  /\ install.addAll = "rejected" =>
       install.promise # "fulfilled" /\ swState \notin InstalledStates
  /\ (swState \in InstalledStates /\ install.addAll # "none") =>
       \A u \in StaticAssetURLs : Exists(STATIC_CACHE) /\ store[STATIC_CACHE][u] # Absent

\* C4 (as claimed): once install, having fetched its assets, has completed
\* successfully for the host, a cache-first request for a listed static asset
\* issues no fetch and returns a cached entry.
C4_StaticAssetsServedFromCache ==
  \A p \in ProcIds :
    ( /\ swState \in InstalledStates
      /\ install.addAll # "none"
      /\ procs[p].strategy = "cacheFirst"
      /\ procs[p].req.url \in StaticAssetURLs
      /\ ~procs[p].storeError )
    => /\ ~NetCalled(p)
       /\ Returned(p) => procs[p].result \in procs[p].lookup.entries

\* the network-first invocation p found the network failing and read the cache
NetworkFailedCacheHit(p) ==
  /\ procs[p].strategy = "networkFirst"
  /\ procs[p].net = Failed
  /\ procs[p].lookup.state = "ok"
  /\ procs[p].lookup.entries # {}

\* C5: network-first with the fetch failing and an entry cached for the URL
\* returns a cached entry for that URL, never the offline fallback.
C5_NetworkFirstFallsBackToCache ==
  \A p \in ProcIds :
    NetworkFailedCacheHit(p) =>
      /\ Returned(p)
      /\ procs[p].result \in procs[p].lookup.entries
      /\ procs[p].result # getOfflineFallback(procs[p].req)

C5_Witness ==
  \E p \in ProcIds :
    /\ NetworkFailedCacheHit(p)
    /\ Returned(p)
    /\ procs[p].result = Resp(200, "network", "v2")

\* C6 (as claimed): after a cache-first miss that fetched a 200 response and
\* returned it, a later cache-first request for the same URL with the network
\* failing returns that stored copy, however the first write interleaves.
C6_SecondRequestSeesStoredCopy ==
  \A p, q \in ProcIds :
    ( /\ procs[p].strategy = "cacheFirst" /\ procs[q].strategy = "cacheFirst"
      /\ procs[p].req.url = procs[q].req.url
      /\ p \in procs[q].after
      /\ procs[p].lookup.state = "ok" /\ procs[p].lookup.entries = {}
      /\ procs[p].net.status = 200 /\ procs[p].result = procs[p].net
      /\ ~procs[q].storeError
      /\ procs[q].net = Failed
      /\ Returned(q) )
    => procs[q].result = procs[p].net

\* the stale-while-revalidate invocation p found an entry in the dynamic region
StaleHit(p) ==
  /\ procs[p].strategy = "staleWhileRevalidate"
  /\ procs[p].lookup.state = "ok"
  /\ procs[p].lookup.entries # {}

\* C7: stale-while-revalidate with an entry in the dynamic region at lookup
\* time answers with that entry at once, and the answer stays that entry
\* whatever the revalidation fetch settles to.
C7_StaleWinsCurrentCall ==
  \A p \in ProcIds :
    StaleHit(p) => Returned(p) /\ procs[p].lookup.entries = {procs[p].result}

C7_Witness ==
  \E p \in ProcIds :
    /\ StaleHit(p)
    /\ procs[p].bg = "settled"
    /\ procs[p].net.status = 200
    /\ procs[p].net # procs[p].result
    /\ procs[p].result = Resp(200, "network", "v1")

\* neither the cache nor the network had anything for invocation p
TotalFailure(p) ==
  /\ procs[p].strategy \in {"cacheFirst", "networkFirst"}
  /\ procs[p].net = Failed
  /\ procs[p].lookup.state = "ok"
  /\ procs[p].lookup.entries = {}
  /\ Returned(p)

HtmlTypes == {"text/html"}

ImageTypes == {"image/svg+xml", "image/png", "image/jpeg", "image/gif", "image/webp"}

\* what the claim says of the synthesized response for one destination
FallbackAsClaimed(destination, response) ==
  /\ destination = "document" => response.status = 200 /\ response.ctype \in HtmlTypes
  /\ destination = "image" => response.status = 200 /\ response.ctype \in ImageTypes
  /\ destination \notin {"document", "image"} => response.status = 503

\* C8: on total failure the caller receives status 200 with an HTML type for a
\* document, status 200 with an image type for an image, status 503 for any
\* other destination, and requests of one destination receive the same
\* response.
C8_OfflineFallbackByDestination ==
  /\ \A p \in ProcIds :
       TotalFailure(p) => FallbackAsClaimed(procs[p].req.destination, procs[p].result)
  /\ \A p, q \in ProcIds :
       (TotalFailure(p) /\ TotalFailure(q)
          /\ procs[p].req.destination = procs[q].req.destination)
       => procs[p].result = procs[q].result
  /\ \A r \in Requests \cup EngineRequests :
       FallbackAsClaimed(r.destination, getOfflineFallback(r))

C8_Witness ==
  \E p, q \in ProcIds :
    /\ TotalFailure(p) /\ procs[p].req.destination = "image"
    /\ procs[p].result.status = 200
    /\ TotalFailure(q) /\ procs[q].req.destination = "font"
    /\ procs[q].result.status = 503

CurrentRegions == {STATIC_CACHE, DYNAMIC_CACHE}

\* C9: when activation completes no region other than the two current ones
\* exists, and no step of the activate handler removes a current region or
\* changes its contents.
C9_ActivationEvictsOnlyStale ==
  [][/\ swState' = "activated" =>
          \A n \in RegionNames : Exists(n)' => n \in CurrentRegions
     /\ activate' # activate =>
          \A n \in CurrentRegions :
            Exists(n) => Exists(n)' /\ store'[n] = store[n]]_vars

C9_Witness ==
  /\ swState = "activated"
  /\ deleted = OldRegionNames
  /\ cacheOrder = <<STATIC_CACHE, DYNAMIC_CACHE>>
  /\ store[STATIC_CACHE] # EmptyRegion
  /\ store[DYNAMIC_CACHE] # EmptyRegion

\* the POST of item k rejected in the invocation for this tag
RejectedAt(tag, k) == k \in 1..Len(sync[tag].results) /\ sync[tag].results[k] = 0

AllPostsSucceeded(tag) ==
  /\ Len(sync[tag].items) >= 1
  /\ Len(sync[tag].results) = Len(sync[tag].items)
  /\ \A k \in 1..Len(sync[tag].results) :
       sync[tag].results[k] >= 200 /\ sync[tag].results[k] <= 299

WasStarted(p) == procs[p].pc # "idle"

\* the strategy the claimed precedence gives a URL under an asset list
ByPrecedence(assets, url, strategy) ==
  /\ SameOrigin(url) => strategy = "cacheFirst"
  /\ (~SameOrigin(url) /\ MatchesAssetOf(assets, url)) => strategy = "cacheFirst"
  /\ (~SameOrigin(url) /\ ~MatchesAssetOf(assets, url) /\ MatchesDynamicPattern(url))
       => strategy = "networkFirst"
  /\ (~SameOrigin(url) /\ ~MatchesAssetOf(assets, url) /\ ~MatchesDynamicPattern(url))
       => strategy = "staleWhileRevalidate"

\* a static-asset list without entries that every URL contains
AssetsWithoutRoot == << <<"https:", "/", "/", "cdn.tailwindcss.com">> >>

\* C12: every answered GET fetch event runs the one strategy the precedence
\* same-origin, static-asset substring, dynamic pattern, otherwise gives its
\* URL (so a same-origin URL matching a dynamic pattern runs cache-first), and
\* the chain follows that precedence for other asset lists as well.
C12_RouterPrecedence ==
  /\ \A p \in ProcIds :
       WasStarted(p) => ByPrecedence(STATIC_ASSETS, procs[p].req.url, procs[p].strategy)
  /\ lastFetch.respondWith =>
       \E p \in ProcIds : WasStarted(p) /\ procs[p].req = lastFetch.req
  /\ \A r \in Requests \cup EngineRequests :
       /\ Route(r) = RouteWith(STATIC_ASSETS, r)
       /\ ByPrecedence(AssetsWithoutRoot, r.url, RouteWith(AssetsWithoutRoot, r))

C12_Witness ==
  \E p \in ProcIds :
    /\ WasStarted(p)
    /\ SameOrigin(procs[p].req.url)
    /\ MatchesDynamicPattern(procs[p].req.url)
    /\ procs[p].strategy = "cacheFirst"
    /\ lastFetch.respondWith

\* C19 (as claimed): with the configured lists, a cross-origin GET whose URL
\* matches a dynamic pattern and is not a listed static asset runs
\* network-first, and one matching neither runs stale-while-revalidate.
C19_DynamicAndOtherAreRouted ==
  \A p \in ProcIds :
    (WasStarted(p) /\ ~SameOrigin(procs[p].req.url)
       /\ procs[p].req.url \notin StaticAssetURLs)
    => procs[p].strategy =
         IF MatchesDynamicPattern(procs[p].req.url)
           THEN "networkFirst" ELSE "staleWhileRevalidate"

Is2xx(response) == response.status >= 200 /\ response.status <= 299

\* invocation p fetched a response and is past the point where it would put it
PastPut(p) ==
  /\ procs[p].net \in NetResponses
  /\ ~procs[p].storeError
  /\ IF procs[p].strategy = "staleWhileRevalidate"
       THEN procs[p].bg = "settled" ELSE Returned(p)

\* the responses held by the regions or by a pending put
StoredOrPending ==
  ({store[n][u] : n \in RegionNames, u \in URLs} \ {Absent})
    \cup {w.resp : w \in puts}

FetchedNon2xx(p) ==
  /\ procs[p].strategy \in {"cacheFirst", "networkFirst"}
  /\ procs[p].net \in NetResponses
  /\ ~Is2xx(procs[p].net)

\* C14 (as claimed): in cache-first and network-first the caller never receives
\* a non-2xx network response; it receives what the fallback path yields.
C14_Non2xxTakesFallbackPath ==
  \A p \in ProcIds :
    (FetchedNon2xx(p) /\ Returned(p)) => procs[p].result # procs[p].net

\* C14 (amended): in cache-first and network-first a non-2xx network response
\* is returned to the caller as it is, at once and without being stored; the
\* fallback path is what a rejected fetch yields.
C14_Non2xxIsReturned ==
  \A p \in ProcIds :
    /\ FetchedNon2xx(p) =>
         /\ Returned(p)
         /\ procs[p].result = procs[p].net
         /\ ~procs[p].putIssued
    /\ ( /\ procs[p].strategy \in {"cacheFirst", "networkFirst"}
         /\ procs[p].net = Failed
         /\ Returned(p) )
       => procs[p].result \in procs[p].lookup.entries \cup {getOfflineFallback(procs[p].req)}

C14_Witness ==
  \E p, q \in ProcIds :
    /\ FetchedNon2xx(p) /\ procs[p].strategy = "cacheFirst"
    /\ procs[p].result = Resp(404, "network", "not found")
    /\ FetchedNon2xx(q) /\ procs[q].strategy = "networkFirst"
    /\ procs[q].result = Resp(404, "network", "not found")

\* C15 (as claimed): a failing store operation is never propagated and never
\* changes the answer: no strategy rejects, a failed lookup is followed by the
\* network fetch, and a fetched response is what the caller receives.
C15_StoreFailureIsHarmless ==
  \A p \in ProcIds :
    /\ procs[p].pc # "rejected"
    /\ (procs[p].lookup.state = "failed" /\ Returned(p)) => procs[p].net # None
    /\ (procs[p].storeError /\ Returned(p) /\ procs[p].net \in NetResponses)
         => procs[p].result = procs[p].net

\* stale-while-revalidate invocation p answered from an entry and its
\* revalidation fetch resolved with a 200 response
Revalidated(p) ==
  /\ procs[p].strategy = "staleWhileRevalidate"
  /\ procs[p].cached # Absent
  /\ procs[p].net \in NetResponses
  /\ procs[p].net.status = 200

\* the write of p's fresh copy has completed and the entry is that copy
WriteCompleted(p) ==
  /\ Revalidated(p)
  /\ PutOf(p, DYNAMIC_CACHE, procs[p].net) \notin puts
  /\ store[DYNAMIC_CACHE][procs[p].req.url] = procs[p].net

\* q looks the URL of p up in this step
LooksUpAfter(p, q) ==
  /\ q # p
  /\ procs[q].strategy = "staleWhileRevalidate"
  /\ procs[q].req.url = procs[p].req.url
  /\ procs[q].pc = "swr_match"
  /\ procs'[q].lookup.state = "ok"

\* C17: after a stale-while-revalidate hit whose revalidation fetched a 200
\* response, the completed put makes that response the entry of the dynamic
\* region; a stale-while-revalidate lookup of the same URL made once the write
\* has completed returns it; the answer of the first call stays the old entry.
C17_FreshCopyServesNextRequest ==
  [][\A p \in ProcIds :
       /\ ( /\ Revalidated(p)
            /\ PutOf(p, DYNAMIC_CACHE, procs[p].net) \in puts
            /\ PutOf(p, DYNAMIC_CACHE, procs[p].net) \notin puts'
            /\ store' # store )
          => /\ store' = [store EXCEPT ![DYNAMIC_CACHE][procs[p].req.url] = procs[p].net]
             /\ procs'[p].result = procs[p].cached
       /\ \A q \in ProcIds :
            (WriteCompleted(p) /\ LooksUpAfter(p, q))
              => /\ procs'[q].pc = "done"
                 /\ procs'[q].result = procs[p].net
                 /\ procs'[p].result = procs[p].cached
  ]_vars

C17_Witness ==
  \E p, q \in ProcIds :
    /\ WriteCompleted(p)
    /\ procs[p].net # procs[p].cached
    /\ procs[p].result = procs[p].cached
    /\ q # p /\ p \in procs[q].after
    /\ procs[q].strategy = "staleWhileRevalidate"
    /\ procs[q].req.url = procs[p].req.url
    /\ Returned(q)
    /\ procs[q].result = procs[p].net

\* the region a strategy is to write to
RegionOf(strategy) ==
  IF strategy = "cacheFirst" THEN STATIC_CACHE ELSE DYNAMIC_CACHE

\* region n is created, or an entry is written to it, in this step
CreatedOrWritten(n) ==
  \/ ~Exists(n) /\ \E i \in 1..Len(cacheOrder') : cacheOrder'[i] = n
  \/ \E u \in URLs : store'[n][u] # store[n][u] /\ store'[n][u] # Absent

\* C18: every put a strategy issues is aimed at the strategy's region
\* (cache-first the static one, the other two the dynamic one); no step of
\* the worker creates or writes a region other than the two current ones;
\* once activation has completed only current regions exist.
C18_RegionWriteDiscipline ==
  [][/\ \A w \in puts' : w.region = RegionOf(procs'[w.by].strategy)
     /\ \A n \in RegionNames : CreatedOrWritten(n) => n \in CurrentRegions
     /\ \A w \in puts :
          (w \notin puts' /\ store' # store)
            => store' = [store EXCEPT ![RegionOf(procs[w.by].strategy)][w.url] = w.resp]
     /\ swState' = "activated" =>
          \A n \in RegionNames :
            (\E i \in 1..Len(cacheOrder') : cacheOrder'[i] = n) => n \in CurrentRegions
  ]_vars

C18_Witness ==
  /\ swState = "activated"
  /\ deleted # {}
  /\ \E p \in ProcIds :
       /\ procs[p].strategy \in {"networkFirst", "staleWhileRevalidate"}
       /\ procs[p].putIssued
       /\ store[DYNAMIC_CACHE][procs[p].req.url] = procs[p].net
       /\ store[STATIC_CACHE][procs[p].req.url] # procs[p].net
  /\ \E u \in StaticAssetURLs : store[STATIC_CACHE][u] # Absent
  /\ mon.pc = "done"

====
